---- MODULE Spec2Model ----
(***************************************************************************)
(* Workflow engine of the Tako research canvas agent.                      *)
(*                                                                         *)
(* Two programs of the repository are modelled:                            *)
(*   - the LangGraph workflow of agents/src (agent.ts, chat.ts, state.ts   *)
(*     and its search node, whose text is kept in                          *)
(*     api/copilotkit-handler.js lines 352-466);       specification Spec  *)
(*   - one pass of the Tako + Tavily search node of                        *)
(*     agents/typescript/src/search.ts, with the Tako MCP client of        *)
(*     tako/mcp-client.ts;                       specification SpecSearch  *)
(*     (SpecSearchLive: a pass over one question, with fairness)           *)
(* SpecReducer merges deltas through the reducers of agents/src/state.ts   *)
(* on their own; SpecAgents is the sum of Spec and SpecSearch.             *)
(***************************************************************************)
EXTENDS Integers, Sequences, FiniteSets, TLC

(***************************************************************************)
(* Bounds of the model.                                                    *)
(***************************************************************************)
\* supersteps one graph.invoke may execute (LangGraph's recursionLimit,
\* 25 when the caller passes none; scaled down here)
RecursionLimit == 4
\* data questions in one GenerateDataQuestions call
MaxQuestions == 2
\* items in one provider response
MaxResults == 1

(***************************************************************************)
(* Values.                                                                 *)
(***************************************************************************)
Topic == "Compare X vs Y"
AllQuestions == <<"X market size", "Y market size", "Z market size", "W market size">>
QuestionLists == {SubSeq(AllQuestions, 1, n) : n \in 0..MaxQuestions}
ReportText == "# Report"

RECURSIVE SeqsUpTo(_, _)
\* all sequences over S of length at most n
SeqsUpTo(S, n) ==
    IF n = 0 THEN {<<>>}
    ELSE LET shorter == SeqsUpTo(S, n - 1)
         IN  shorter \cup {Append(s, e) : s \in shorter, e \in S}

NoArgs == [research_question |-> "", data_questions |-> <<>>, report |-> ""]
\* the tool calls a model reply may carry (name + typed arguments)
WriteResearchQuestion(q) ==
    [name |-> "WriteResearchQuestion", args |-> [NoArgs EXCEPT !.research_question = q]]
GenerateDataQuestions(ql) ==
    [name |-> "GenerateDataQuestions", args |-> [NoArgs EXCEPT !.data_questions = ql]]
WriteReport(r) == [name |-> "WriteReport", args |-> [NoArgs EXCEPT !.report = r]]
OtherTool == [name |-> "Search", args |-> NoArgs]

\* the tool calls of one model reply: none, one, or several at once
ReplyToolCalls ==
    {<<>>, <<WriteResearchQuestion(Topic)>>, <<WriteReport(ReportText)>>, <<OtherTool>>}
    \cup {<<GenerateDataQuestions(ql)>> : ql \in QuestionLists}
    \cup {<<WriteResearchQuestion(Topic), GenerateDataQuestions(<<AllQuestions[1]>>)>>,
          <<GenerateDataQuestions(<<AllQuestions[1]>>), WriteReport(ReportText)>>,
          <<GenerateDataQuestions(<<AllQuestions[1]>>), GenerateDataQuestions(<<>>)>>}

AIMessage(tcs) == [role |-> "ai", content |-> "text", tool_calls |-> tcs]

\* AIMessage returned by modelWithTools.invoke
Replies == {AIMessage(tcs) : tcs \in ReplyToolCalls}

UserMessage(text) == [role |-> "user", content |-> text, tool_calls |-> <<>>]

\* SearchResult items the chart provider may return; two of them share a
\* card_id and differ in content
SearchResults ==
    {[card_id |-> "c1", title |-> "Chart 1"],
     [card_id |-> "c2", title |-> "Chart 2"],
     [card_id |-> "c1", title |-> "Chart 1 (updated)"]}
CardIds == {r.card_id : r \in SearchResults}
IframeHtml == "<iframe>"

\* `s.f || dflt` / `s.f ?? dflt`
Get(s, f, dflt) == IF f \in DOMAIN s THEN s[f] ELSE dflt

(***************************************************************************)
(* Reducers, agents/src/state.ts.  x is the channel's value in s, y the    *)
(* value in d; an absent key is undefined.                                 *)
(***************************************************************************)
\* the new messages put in front of the old ones
messages_reducer_Prepend(s, d) == d.messages \o s.messages

messages_reducer(s, d) == s.messages \o d.messages

research_question_reducer(s, d) ==
    IF "research_question" \in DOMAIN d THEN d.research_question
    ELSE Get(s, "research_question", "")

\* the question list merged with `y?.length ? y : x`
data_questions_reducer_KeepsNonEmpty(s, d) ==
    IF "data_questions" \in DOMAIN d /\ d.data_questions # <<>> THEN d.data_questions
    ELSE Get(s, "data_questions", <<>>)

data_questions_reducer(s, d) ==
    IF "data_questions" \in DOMAIN d THEN d.data_questions
    ELSE Get(s, "data_questions", <<>>)

\* the report merged with `y || x || ""`
report_reducer_Truthy(s, d) ==
    IF "report" \in DOMAIN d /\ d.report # "" THEN d.report ELSE Get(s, "report", "")

report_reducer(s, d) ==
    IF "report" \in DOMAIN d THEN d.report ELSE Get(s, "report", "")

\* resources merged the way messages are
resources_reducer_Concat(s, d) ==
    IF "resources" \in DOMAIN d THEN Get(s, "resources", <<>>) \o d.resources
    ELSE Get(s, "resources", <<>>)

resources_reducer(s, d) ==
    IF "resources" \in DOMAIN d THEN d.resources ELSE Get(s, "resources", <<>>)

\* the log emptied by a delta that carries an empty log
logs_reducer_ResetOnEmpty(s, d) ==
    IF "logs" \notin DOMAIN d THEN Get(s, "logs", <<>>)
    ELSE IF d.logs = <<>> THEN <<>>
    ELSE Get(s, "logs", <<>>) \o d.logs

logs_reducer(s, d) ==
    IF "logs" \notin DOMAIN d THEN Get(s, "logs", <<>>)
    ELSE Get(s, "logs", <<>>) \o d.logs

Reduce(f, s, d) ==
    CASE f = "messages" -> messages_reducer(s, d)
      [] f = "research_question" -> research_question_reducer(s, d)
      [] f = "data_questions" -> data_questions_reducer(s, d)
      [] f = "report" -> report_reducer(s, d)
      [] f = "resources" -> resources_reducer(s, d)
      [] f = "logs" -> logs_reducer(s, d)

\* a commit that empties the log whenever the node wrote none
ApplyDelta_ClearsLog(s, d) ==
    [f \in (DOMAIN s) \cup (DOMAIN d) |->
        IF f \notin DOMAIN d THEN (IF f = "logs" THEN <<>> ELSE s[f])
        ELSE IF f \notin DOMAIN s THEN d[f]
        ELSE Reduce(f, s, d)]

\* the graph commits a node's updates: a channel written by the node takes
\* the written value when it was empty and the reducer's result otherwise;
\* a channel the node did not write keeps its value
ApplyDelta(s, d) ==
    [f \in (DOMAIN s) \cup (DOMAIN d) |->
        IF f \notin DOMAIN d THEN s[f]
        ELSE IF f \notin DOMAIN s THEN d[f]
        ELSE Reduce(f, s, d)]

\* the commit of agents/typescript, whose AgentStateAnnotation gives logs,
\* resources and the other fields no reducer: a written channel takes the
\* written value
AgentStateCommit(s, d) ==
    [f \in (DOMAIN s) \cup (DOMAIN d) |-> IF f \in DOMAIN d THEN d[f] ELSE s[f]]

\* {...a, ...b}
Spread(a, b) ==
    [f \in (DOMAIN a) \cup (DOMAIN b) |-> IF f \in DOMAIN b THEN b[f] ELSE a[f]]

(***************************************************************************)
(* Router, agents/src/agent.ts.                                            *)
(***************************************************************************)
\* the router without the test of data_questions
shouldSearch_AnyList(s) ==
    LET messages == Get(s, "messages", <<>>)
        hasCalls == Len(messages) > 0 /\ Len(messages[Len(messages)].tool_calls) > 0
        lastMessage == messages[Len(messages)]
        hasGenerateQuestions ==
            \E k \in 1..Len(lastMessage.tool_calls) :
                lastMessage.tool_calls[k].name = "GenerateDataQuestions"
    IN  IF hasCalls /\ hasGenerateQuestions THEN "search" ELSE "end"

shouldSearch(s) ==
    LET messages == Get(s, "messages", <<>>)
        hasCalls == Len(messages) > 0 /\ Len(messages[Len(messages)].tool_calls) > 0
        lastMessage == messages[Len(messages)]
        hasGenerateQuestions ==
            \E k \in 1..Len(lastMessage.tool_calls) :
                lastMessage.tool_calls[k].name = "GenerateDataQuestions"
    IN  IF hasCalls /\ hasGenerateQuestions
           /\ "data_questions" \in DOMAIN s /\ Len(s.data_questions) > 0
        THEN "search" ELSE "end"

\* the workflow with a plain edge chat -> search next to the conditional one
Successors_PlainEdge(n, s) ==
    CASE n = "__start__" -> {"chat"}
      [] n = "chat" -> {"search"} \cup (IF shouldSearch(s) = "search" THEN {"search"} ELSE {})
      [] n = "search" -> {"chat"}

\* edges of the workflow: the nodes triggered once node n has committed s
Successors(n, s) ==
    CASE n = "__start__" -> {"chat"}
      [] n = "chat" -> IF shouldSearch(s) = "search" THEN {"search"} ELSE {}
      [] n = "search" -> {"chat"}

(***************************************************************************)
(* chat_node, agents/src/chat.ts.                                          *)
(***************************************************************************)
\* the loop body with the number of questions fixed in the log text
ChatToolCall_FixedCount(s, acc, toolCall) ==
    LET newLogs ==
            CASE toolCall.name = "WriteResearchQuestion" ->
                    <<"Research question set: " \o toolCall.args.research_question>>
              [] toolCall.name = "GenerateDataQuestions" -> <<"Generated 3 data questions">>
              [] toolCall.name = "WriteReport" -> <<"Report draft created">>
              [] OTHER -> <<>>
        fields ==
            CASE toolCall.name = "WriteResearchQuestion" ->
                    [research_question |-> toolCall.args.research_question]
              [] toolCall.name = "GenerateDataQuestions" ->
                    [data_questions |-> toolCall.args.data_questions]
              [] toolCall.name = "WriteReport" -> [report |-> toolCall.args.report]
              [] OTHER -> <<>>
        updates == IF Len(newLogs) > 0
                   THEN Spread(Spread(acc.updates, fields), [logs |-> newLogs])
                   ELSE acc.updates
    IN  [updates |-> updates,
         saved |-> IF Len(newLogs) > 0
                   THEN Append(acc.saved, Spread(s, updates))
                   ELSE acc.saved]

\* one iteration of `for (const toolCall of response.tool_calls)`:
\* acc = [updates, saved] -> the same after handling toolCall
ChatToolCall(s, acc, toolCall) ==
    LET newLogs ==
            CASE toolCall.name = "WriteResearchQuestion" ->
                    <<"Research question set: " \o toolCall.args.research_question>>
              [] toolCall.name = "GenerateDataQuestions" ->
                    <<"Generated " \o ToString(Len(toolCall.args.data_questions))
                          \o " data questions">>
              [] toolCall.name = "WriteReport" -> <<"Report draft created">>
              [] OTHER -> <<>>
        fields ==
            CASE toolCall.name = "WriteResearchQuestion" ->
                    [research_question |-> toolCall.args.research_question]
              [] toolCall.name = "GenerateDataQuestions" ->
                    [data_questions |-> toolCall.args.data_questions]
              [] toolCall.name = "WriteReport" -> [report |-> toolCall.args.report]
              [] OTHER -> <<>>
        updates == IF Len(newLogs) > 0
                   THEN Spread(Spread(acc.updates, fields), [logs |-> newLogs])
                   ELSE acc.updates
    IN  [updates |-> updates,
         saved |-> IF Len(newLogs) > 0
                   THEN Append(acc.saved, Spread(s, updates))
                   ELSE acc.saved]

RECURSIVE ChatLoop(_, _, _, _)
ChatLoop(s, acc, tcs, k) ==
    IF k > Len(tcs) THEN acc
    ELSE ChatLoop(s, ChatToolCall(s, acc, tcs[k]), tcs, k + 1)

\* chat_node noting every reply of the model in the log
chat_node_LogsReply(s, response) ==
    ChatLoop(s, [updates |-> [messages |-> <<response>>, logs |-> <<"Model replied">>],
                 saved |-> <<>>],
             response.tool_calls, 1)

\* the updates chat_node returns for the model's response, and the states it
\* hands to config.saveState on the way
chat_node(s, response) ==
    ChatLoop(s, [updates |-> [messages |-> <<response>>], saved |-> <<>>],
             response.tool_calls, 1)

(***************************************************************************)
(* search_node of agents/src (api/copilotkit-handler.js 352-466).          *)
(***************************************************************************)
\* what the chart provider does with one request: it answers with a list of
\* results, or the request fails
SearchOutcomes ==
    {[ok |-> TRUE, results |-> rs] : rs \in SeqsUpTo(SearchResults, MaxResults)}
    \cup {[ok |-> FALSE, results |-> <<>>]}

\* searchTakoCharts: the results, [] when the request failed (error swallowed)
searchTakoCharts(outcome) == IF outcome.ok THEN outcome.results ELSE <<>>

\* getChartIframe: the html, "" when the request failed (error swallowed)
getChartIframe(ok) == IF ok THEN IframeHtml ELSE ""

\* the known-resource test with the comparison inverted
HasCard_Inverted(resources, result) ==
    \E k \in 1..Len(resources) : resources[k].card_id # result.card_id

\* the known-resource test on the title instead of the card id
HasCard_ByTitle(resources, result) ==
    \E k \in 1..Len(resources) : resources[k].title = result.title

\* newResources.some(r => r.card_id === result.card_id)
HasCard(resources, result) ==
    \E k \in 1..Len(resources) : resources[k].card_id = result.card_id

\* one iteration of `for (const result of results)`
SearchResultStep(acc, result, iframeOk) ==
    IF HasCard(acc.resources, result) THEN acc
    ELSE [logs |-> Append(acc.logs, "Fetching chart: " \o result.title),
          resources |-> Append(acc.resources,
                               [card_id |-> result.card_id, title |-> result.title,
                                iframe_html |-> getChartIframe(iframeOk[result.card_id])])]

RECURSIVE SearchResultsLoop(_, _, _, _)
SearchResultsLoop(acc, results, iframeOk, k) ==
    IF k > Len(results) THEN acc
    ELSE SearchResultsLoop(SearchResultStep(acc, results[k], iframeOk), results, iframeOk, k + 1)

\* one iteration of `for (const question of state.data_questions || [])`
SearchQuestionStep(acc, question, outcome, iframeOk) ==
    LET results == searchTakoCharts(outcome)
        logs == acc.logs \o <<"Searching Tako for: \"" \o question \o "\"",
                              "Found " \o ToString(Len(results)) \o " charts for \""
                                  \o question \o "\"">>
    IN  SearchResultsLoop([logs |-> logs, resources |-> acc.resources], results, iframeOk, 1)

RECURSIVE SearchQuestionsLoop(_, _, _, _, _)
SearchQuestionsLoop(acc, questions, outcomes, iframeOk, i) ==
    IF i > Len(questions) THEN acc
    ELSE SearchQuestionsLoop(SearchQuestionStep(acc, questions[i], outcomes[i], iframeOk),
                             questions, outcomes, iframeOk, i + 1)

\* search_node returning an emptied question list with its results
search_node_ClearsQuestions(s, outcomes, iframeOk) ==
    LET acc == SearchQuestionsLoop([logs |-> <<>>, resources |-> Get(s, "resources", <<>>)],
                                   Get(s, "data_questions", <<>>), outcomes, iframeOk, 1)
        updates == [logs |-> acc.logs, resources |-> acc.resources, data_questions |-> <<>>]
    IN  [updates |-> updates, saved |-> <<Spread(s, updates)>>]

\* the updates search_node returns, and the state it hands to config.saveState
search_node(s, outcomes, iframeOk) ==
    LET acc == SearchQuestionsLoop([logs |-> <<>>, resources |-> Get(s, "resources", <<>>)],
                                   Get(s, "data_questions", <<>>), outcomes, iframeOk, 1)
        updates == [logs |-> acc.logs, resources |-> acc.resources]
    IN  [updates |-> updates, saved |-> <<Spread(s, updates)>>]


(***************************************************************************)
(* State of the workflow of agents/src.                                    *)
(***************************************************************************)
VARIABLES
    body,       \* req.body of the current graph.invoke
    state,      \* TakoResearchState: the channels of the graph (absent key = undefined)
    active,     \* nodes triggered for the next superstep
    run,        \* "running" | "halted" (graph.invoke resolved) | "failed" (it rejected)
    step,       \* supersteps executed by the current graph.invoke
    path,       \* nodes executed by the current graph.invoke, in order
    lastNode,   \* the node that committed last ("" before the first)
    before,     \* state committed before the last node ran
    delta,      \* updates returned by the last node
    snapshots,  \* states handed to config.saveState by the last node, in order
    failure,    \* why the run failed ("" while it has not)
    provided    \* the chart provider's answers in the last search pass, by question

graphVars == <<body, state, active, run, step, path, lastNode, before, delta,
               snapshots, failure, provided>>

(***************************************************************************)
(* State of one call of search_node of agents/typescript/src/search.ts.    *)
(***************************************************************************)
VARIABLES
    pc,             \* position in search_node ("off" when this program is not run)
    entry,          \* the AgentState search_node was called with
    mock,           \* the providers' answers, fixed for the pass: web and tako, by question
    takoTools,      \* did initializeTakoMCP return the Tako tools
    queries,        \* the questions searched
    i,              \* index of the question whose pair of searches is awaited
    pending,        \* provider calls in flight
    pair,           \* responses received for the awaited pair
    logs,           \* local `logs`
    resources,      \* local `resources`
    search_results, \* Tavily responses, as pushed
    tako_results,   \* Tako responses, as pushed
    existingUrls,   \* URLs already among the resources
    cursor,         \* index of the next Tako result to process
    renders,        \* card ids for which the chart UI was requested, in order
    emitted,        \* states handed to copilotkitEmitState, in order
    out,            \* the updates search_node returned
    thrown,         \* what search_node threw ("" when nothing)
    held,           \* the AgentState object search_node was called with, as its
                    \* caller holds it: `resources` and `logs` are its arrays
    mcpEnv,         \* what initializeWithTimeout meets: token, server
    mcpCache        \* mcp-client.ts `mcpCache` ("null" before the first result)

passVars == <<pc, entry, mock, takoTools, queries, i, pending, pair, logs, resources,
              search_results, tako_results, existingUrls, cursor, renders, emitted,
              out, thrown, held, mcpEnv, mcpCache>>

(***************************************************************************)
(* State of the reducer harness: one delta merged repeatedly into a state. *)
(***************************************************************************)
VARIABLES
    rstate,     \* the state the delta is merged into
    rdelta,     \* the delta
    merged      \* the states after the first, second, ... merge of rdelta

reducerVars == <<rstate, rdelta, merged>>

(***************************************************************************)
(* Concurrent callers of initializeTakoMCP, tako/mcp-client.ts: the module *)
(* variables mcpCache (above) and initializationPromise, the promises      *)
(* initializeWithTimeout has returned, and every caller's position.        *)
(***************************************************************************)
VARIABLES
    initializationPromise,  \* 0 for null, else the index in promises of the promise it holds
    promises,               \* one record per initializeWithTimeout call: pending or resolved with a value
    callerPc,               \* per caller: "idle", "own" (awaiting at line 94), "shared" (got the promise of line 87), "done"
    waitsOn,                \* per caller: index of the promise it awaits or awaited, 0 for none
    got,                    \* per caller: the value its call resolved with, <<>> before
    calledIn                \* per caller: the environment at the time of its call

clientVars == <<initializationPromise, promises, callerPc, waitsOn, got, calledIn>>

vars == <<graphVars, passVars, reducerVars, clientVars>>

(***************************************************************************)
(* The run: graph.invoke(req.body), agents/src/server.ts and agent.ts.     *)
(***************************************************************************)
\* the state a finished run returned, posted again with a new user message
Resume(s, text) == [s EXCEPT !.messages = Append(@, UserMessage(text))]
AfterChat(s, tcs) == ApplyDelta(s, chat_node(s, AIMessage(tcs)).updates)
AfterSearch(s, outcomes, iframeOk) == ApplyDelta(s, search_node(s, outcomes, iframeOk).updates)

\* first turn, posted without any state
BareBody == [messages |-> <<UserMessage(Topic)>>]
\* first turn, posted with the frontend's initialState
FrontendBody ==
    [messages |-> <<UserMessage(Topic)>>, research_question |-> "",
     data_questions |-> <<>>, report |-> "", resources |-> <<>>, logs |-> <<>>]
\* second turn, after a run that set the research question and halted
QuestionSetBody ==
    Resume(AfterChat(FrontendBody, <<WriteResearchQuestion(Topic)>>), "go on")
\* later turn, after a run that gathered one chart and wrote a report
ResearchedBody ==
    LET asked == AfterChat(QuestionSetBody, <<GenerateDataQuestions(<<AllQuestions[1]>>)>>)
        found == AfterSearch(asked,
                             <<[ok |-> TRUE, results |-> <<[card_id |-> "c1", title |-> "Chart 1"]>>]>>,
                             [c \in CardIds |-> TRUE])
    IN  Resume(AfterChat(found, <<WriteReport(ReportText)>>), "more")

\* the bodies a client posts to /copilotkit
RequestBodies == {BareBody, FrontendBody, QuestionSetBody, ResearchedBody}

GraphInit ==
    /\ body \in RequestBodies
    /\ state = body
    /\ active = Successors("__start__", state)
    /\ run = "running"
    /\ step = 0
    /\ path = <<>>
    /\ lastNode = ""
    /\ before = state
    /\ delta = <<>>
    /\ snapshots = <<>>
    /\ failure = ""
    /\ provided = <<>>

\* a node has returned: the graph merges its updates and follows its edges
Commit(n, returned) ==
    LET committed == ApplyDelta(state, returned.updates)
        next == (active \ {n}) \cup Successors(n, committed)
    IN  /\ state' = committed
        /\ before' = state
        /\ delta' = returned.updates
        /\ snapshots' = returned.saved
        /\ lastNode' = n
        /\ path' = Append(path, n)
        /\ step' = step + 1
        /\ active' = next
        /\ run' = IF next = {} THEN "halted" ELSE "running"
        /\ UNCHANGED <<body, failure>>

CanRun(n) == run = "running" /\ n \in active /\ step < RecursionLimit

\* the chat node runs and the model answers
ChatStep ==
    /\ CanRun("chat")
    /\ \E response \in Replies : Commit("chat", chat_node(state, response))
    /\ UNCHANGED <<provided, passVars, reducerVars, clientVars>>

\* the chat node runs and modelWithTools.invoke rejects: nothing catches it
\* before the route handler does
ChatModelFails ==
    /\ CanRun("chat")
    /\ run' = "failed"
    /\ failure' = "model"
    /\ path' = Append(path, "chat")
    /\ UNCHANGED <<body, state, active, step, lastNode, before, delta, snapshots, provided, passVars, reducerVars, clientVars>>

\* the search node runs against the chart provider
SearchStep ==
    /\ CanRun("search")
    /\ \E outcomes \in [1..Len(Get(state, "data_questions", <<>>)) -> SearchOutcomes],
          iframeOk \in [CardIds -> BOOLEAN] :
          /\ Commit("search", search_node(state, outcomes, iframeOk))
          /\ provided' = outcomes
    /\ UNCHANGED <<passVars, reducerVars, clientVars>>

\* the graph still has a node to run after RecursionLimit supersteps:
\* graph.invoke rejects and the route handler answers 500
RecursionError ==
    /\ run = "running"
    /\ active # {}
    /\ step >= RecursionLimit
    /\ run' = "failed"
    /\ failure' = "recursion"
    /\ UNCHANGED <<body, state, active, step, path, lastNode, before, delta, snapshots, provided, passVars, reducerVars, clientVars>>


\* the workflow is not run
GraphOff ==
    /\ body = <<>>
    /\ state = <<>>
    /\ active = {}
    /\ run = "off"
    /\ step = 0
    /\ path = <<>>
    /\ lastNode = ""
    /\ before = <<>>
    /\ delta = <<>>
    /\ snapshots = <<>>
    /\ failure = ""
    /\ provided = <<>>

(***************************************************************************)
(* search_node of agents/typescript/src/search.ts: values.                 *)
(***************************************************************************)
\* the question lists a pass is run with
PassQueryLists == {SubSeq(AllQuestions, 1, 1), SubSeq(AllQuestions, 1, 3)}

WebUrl(q) == "https://web.example/" \o q
SharedWebUrl == "https://web.example/shared"
CardOf(q) == "card:" \o q
SharedCard == "card:shared"
ChartUrl(card_id) == "https://tako.example/" \o card_id

WebItem(url) == [url |-> url, title |-> "Page " \o url]
ChartItem(card_id) == [card_id |-> card_id, url |-> ChartUrl(card_id), title |-> "Chart " \o card_id]

\* what Tavily does with the search for q: it answers, or the call rejects;
\* the web search may return the page of a chart among its results
TavilyOutcomes(q) ==
    {[ok |-> FALSE, results |-> <<>>],
     [ok |-> TRUE, results |-> <<>>],
     [ok |-> TRUE, results |-> <<WebItem(WebUrl(q))>>],
     [ok |-> TRUE, results |-> <<WebItem(SharedWebUrl), WebItem(WebUrl(q)),
                                 WebItem(ChartUrl(SharedCard))>>]}

\* what tako_knowledge_search does with the search for q
TakoOutcomes(q) ==
    {[ok |-> FALSE, results |-> <<>>],
     [ok |-> TRUE, results |-> <<>>],
     [ok |-> TRUE, results |-> <<ChartItem(CardOf(q))>>],
     [ok |-> TRUE, results |-> <<ChartItem(CardOf(q)), ChartItem(SharedCard)>>]}

\* the providers' answers for a list of questions
Mocks(qs) ==
    {[web |-> w, tako |-> t] :
        w \in {f \in [1..Len(qs) -> UNION {TavilyOutcomes(qs[k]) : k \in 1..Len(qs)}] :
                  \A k \in 1..Len(qs) : f[k] \in TavilyOutcomes(qs[k])},
        t \in {f \in [1..Len(qs) -> UNION {TakoOutcomes(qs[k]) : k \in 1..Len(qs)}] :
                  \A k \in 1..Len(qs) : f[k] \in TakoOutcomes(qs[k])}}

WebResource(item) ==
    [url |-> item.url, title |-> item.title, resource_type |-> "web",
     card_id |-> "undefined", iframe_html |-> "undefined", source |-> "Tavily Web Search"]

ChartResource(result, iframeHtml) ==
    [url |-> result.url, title |-> result.title, resource_type |-> "tako_chart",
     card_id |-> result.card_id, iframe_html |-> iframeHtml, source |-> "Tako"]

\* the assistant message that sent the workflow to the search node
AskingMessage(qs) ==
    [role |-> "ai", content |-> "",
     tool_calls |-> <<[name |-> "GenerateDataQuestions", id |-> "call_1",
                       args |-> [data_questions |-> qs]]>>]

\* the chart kept from an earlier turn, under the title it had then
KeptChart ==
    ChartResource([card_id |-> SharedCard, url |-> ChartUrl(SharedCard), title |-> "Chart kept"],
                  IframeHtml)

\* a log entry left in the state by an earlier step
EarlierLog == [message |-> "Search for an earlier question", done |-> FALSE]

\* the states search_node is called with: nothing gathered yet, or one web
\* page and one chart kept from an earlier turn; and one whose log is not
\* empty
PassEntries ==
    {[messages |-> <<UserMessage(Topic), AskingMessage(qs)>>, research_question |-> Topic,
      report |-> "", data_questions |-> qs, resources |-> rs, logs |-> <<>>] :
        qs \in PassQueryLists,
        rs \in {<<>>, <<WebResource(WebItem(SharedWebUrl)), KeptChart>>}}
    \cup {[messages |-> <<UserMessage(Topic), AskingMessage(SubSeq(AllQuestions, 1, 1))>>,
            research_question |-> Topic, report |-> "",
            data_questions |-> SubSeq(AllQuestions, 1, 1), resources |-> <<>>,
            logs |-> <<EarlierLog>>]}

(***************************************************************************)
(* Tako MCP client, agents/typescript/src/tako/mcp-client.ts.              *)
(***************************************************************************)
\* what an initialisation meets: TAKO_API_TOKEN is not set; the server
\* cannot be reached (getTools rejects); the server does not answer within
\* timeoutMs (the timeout promise rejects first); the server answers
McpEnvironments == {"no_token", "unreachable", "slow", "up"}

\* the causes for which the Tako MCP client cannot be initialised
McpUnavailable == {"no_token", "unreachable", "slow"}

\* names of the tools the Tako MCP server offers
TakoToolNames == <<"tako_knowledge_search", "tako_open_chart_ui">>

Undefined == "undefined"

\* the initialisation without the race against the timeout promise: a slow
\* server is waited for
initializeWithTimeout_NoTimeout(env) ==
    IF env = "no_token" THEN [client |-> "null", tools |-> <<>>]
    ELSE IF env \in {"unreachable"} THEN [client |-> "null", tools |-> <<>>]
    ELSE [client |-> "MultiServerMCPClient", tools |-> TakoToolNames]

\* initializeWithTimeout: the value the promise resolves with; it never
\* rejects, the missing token returns early and the catch covers the rest
initializeWithTimeout(env) ==
    IF env = "no_token" THEN [client |-> "null", tools |-> <<>>]
    ELSE IF env \in {"unreachable", "slow"} THEN [client |-> "null", tools |-> <<>>]
    ELSE [client |-> "MultiServerMCPClient", tools |-> TakoToolNames]

\* initializeTakoMCP: the cached result when there is one (<<>> stands for
\* null), else the result of a new initialisation, which becomes the cache
initializeTakoMCP(cache, env) ==
    IF cache # <<>> THEN cache ELSE initializeWithTimeout(env)

\* tools.find((tool) => tool.name === toolName)
getTakoTool(tools, toolName) ==
    IF \E k \in 1..Len(tools) : tools[k] = toolName THEN toolName ELSE Undefined

(***************************************************************************)
(* search_node of agents/typescript/src/search.ts: steps.                  *)
(***************************************************************************)
NoResponse == [present |-> FALSE, results |-> <<>>]
Response(results) == [present |-> TRUE, results |-> results]

\* lines 51-57: the queries of the Search tool call, else data_questions
Queries(s) ==
    LET aiMessage == s.messages[Len(s.messages)]
    IN  IF Len(aiMessage.tool_calls) > 0 /\ aiMessage.tool_calls[1].name = "Search"
        THEN aiMessage.tool_calls[1].args.queries
        ELSE IF "data_questions" \in DOMAIN s /\ Len(s.data_questions) > 0
        THEN s.data_questions
        ELSE <<>>

\* const { messages, ...restOfState } = state
RestOfState(s) == [f \in (DOMAIN s) \ {"messages"} |-> s[f]]

\* copilotkitEmitState(config, {...restOfState, logs, resources})
Emit(l, r) == Append(emitted, Spread(RestOfState(entry), [logs |-> l, resources |-> r]))

RECURSIVE Flatten(_)
\* the results of all responses, in the order of the responses
Flatten(responses) ==
    IF responses = <<>> THEN <<>>
    ELSE responses[1].results \o Flatten(Tail(responses))

PassInit ==
    /\ pc = "start"
    /\ entry \in PassEntries
    /\ mock \in Mocks(entry.data_questions)
    /\ takoTools = FALSE
    /\ queries = <<>>
    /\ i = 0
    /\ pending = {}
    /\ pair = [tavily |-> NoResponse, tako |-> NoResponse]
    /\ logs = Get(entry, "logs", <<>>)
    /\ resources = Get(entry, "resources", <<>>)
    /\ search_results = <<>>
    /\ tako_results = <<>>
    /\ existingUrls = {}
    /\ cursor = 0
    /\ renders = <<>>
    /\ emitted = <<>>
    /\ out = <<>>
    /\ thrown = ""
    /\ held = entry
    /\ mcpEnv \in McpEnvironments
    /\ mcpCache = <<>>

\* the search node is not run
PassOff ==
    /\ pc = "off"
    /\ entry = <<>>
    /\ mock = <<>>
    /\ takoTools = FALSE
    /\ queries = <<>>
    /\ i = 0
    /\ pending = {}
    /\ pair = [tavily |-> NoResponse, tako |-> NoResponse]
    /\ logs = <<>>
    /\ resources = <<>>
    /\ search_results = <<>>
    /\ tako_results = <<>>
    /\ existingUrls = {}
    /\ cursor = 0
    /\ renders = <<>>
    /\ emitted = <<>>
    /\ out = <<>>
    /\ thrown = ""
    /\ held = <<>>
    /\ mcpEnv = ""
    /\ mcpCache = <<>>

\* the local `logs` is the array state["logs"] when the state has one
\* (lines 48-49: state["logs"] || []), and so for `resources`
Aliased(f) == f \in DOMAIN entry

\* the caller's state object after the local array of field f became v
Mutated(f, v) == IF Aliased(f) THEN [held EXCEPT ![f] = v] ELSE held

\* lines 51-62: the queries are read and initializeTakoMCP resolves, with the
\* Tako tools or without
InitializeTako ==
    /\ pc = "start"
    /\ mcpCache' = initializeTakoMCP(mcpCache, mcpEnv)
    /\ takoTools' = (getTakoTool(mcpCache'.tools, "tako_knowledge_search") # Undefined)
    /\ queries' = Queries(entry)
    /\ pc' = "progress"
    /\ UNCHANGED <<entry, mock, mcpEnv, i, pending, pair, logs, resources, search_results,
                   tako_results, existingUrls, cursor, renders, emitted, out, thrown, held>>
    /\ UNCHANGED <<graphVars, reducerVars, clientVars>>

\* lines 64-75: one progress entry per query, then the state is emitted
EmitProgress ==
    /\ pc = "progress"
    /\ logs' = logs \o [k \in 1..Len(queries) |->
                          [message |-> "Search for " \o queries[k], done |-> FALSE]]
    /\ held' = Mutated("logs", logs')
    /\ emitted' = Emit(logs', resources)
    /\ i' = 1
    /\ pc' = "loop"
    /\ UNCHANGED <<entry, mock, mcpEnv, takoTools, queries, pending, pair, resources,
                   search_results, tako_results, existingUrls, cursor, renders, out, thrown,
                   mcpCache>>
    /\ UNCHANGED <<graphVars, reducerVars, clientVars>>

\* the pair started with the Tavily search alone
LaunchPair_TavilyFirst ==
    /\ pc = "loop"
    /\ i <= Len(queries)
    /\ pending' = {"tavily"}
    /\ pair' = [tavily |-> NoResponse, tako |-> NoResponse]
    /\ pc' = "await"
    /\ UNCHANGED <<entry, mock, mcpEnv, takoTools, queries, i, logs, resources, search_results,
                   tako_results, existingUrls, cursor, renders, emitted, out, thrown,
                   held, mcpCache>>
    /\ UNCHANGED <<graphVars, reducerVars, clientVars>>

\* lines 81-94: the Tavily and the Tako search of query i are started together
LaunchPair ==
    /\ pc = "loop"
    /\ i <= Len(queries)
    /\ pending' = {"tavily"} \cup (IF takoTools THEN {"tako"} ELSE {})
    /\ pair' = [tavily |-> NoResponse, tako |-> NoResponse]
    /\ pc' = "await"
    /\ UNCHANGED <<entry, mock, mcpEnv, takoTools, queries, i, logs, resources, search_results,
                   tako_results, existingUrls, cursor, renders, emitted, out, thrown,
                   held, mcpCache>>
    /\ UNCHANGED <<graphVars, reducerVars, clientVars>>

\* tavilyClient.search(query) settles; a rejection rejects the Promise.all
\* and leaves search_node
TavilyCompletes ==
    /\ pc = "await"
    /\ "tavily" \in pending
    /\ pending' = pending \ {"tavily"}
    /\ IF mock.web[i].ok
       THEN /\ pair' = [pair EXCEPT !.tavily = Response(mock.web[i].results)]
            /\ UNCHANGED <<pc, thrown>>
       ELSE /\ pc' = "failed"
            /\ thrown' = "tavily search failed"
            /\ UNCHANGED pair
    /\ UNCHANGED <<entry, mock, mcpEnv, takoTools, queries, i, logs, resources, search_results,
                   tako_results, existingUrls, cursor, renders, emitted, out, held, mcpCache>>
    /\ UNCHANGED <<graphVars, reducerVars, clientVars>>

\* takoSearchTool.invoke({query}) settles; a rejection rejects the
\* Promise.all and leaves search_node
TakoCompletes ==
    /\ pc = "await"
    /\ "tako" \in pending
    /\ pending' = pending \ {"tako"}
    /\ IF mock.tako[i].ok
       THEN /\ pair' = [pair EXCEPT !.tako = Response(mock.tako[i].results)]
            /\ UNCHANGED <<pc, thrown>>
       ELSE /\ pc' = "failed"
            /\ thrown' = "tako search failed"
            /\ UNCHANGED pair
    /\ UNCHANGED <<entry, mock, mcpEnv, takoTools, queries, i, logs, resources, search_results,
                   tako_results, existingUrls, cursor, renders, emitted, out, held, mcpCache>>
    /\ UNCHANGED <<graphVars, reducerVars, clientVars>>

\* a provider search that was started never settles: no timeout is attached
\* to tavilyClient.search or takoSearchTool.invoke, so the Promise.all stays
\* pending unless the other call rejects
SearchNeverAnswers ==
    /\ pc = "await"
    /\ \E c \in pending \cap {"tavily", "tako"} :
          pending' = (pending \ {c}) \cup {c \o ":never"}
    /\ UNCHANGED <<pc, entry, mock, mcpEnv, takoTools, queries, i, pair, logs, resources,
                   search_results, tako_results, existingUrls, cursor, renders, emitted,
                   out, thrown, held, mcpCache>>
    /\ UNCHANGED <<graphVars, reducerVars, clientVars>>

\* the join putting the Tako response in front of the earlier ones
JoinPair_Prepend ==
    /\ pc = "await"
    /\ pending = {}
    /\ search_results' = Append(search_results, pair.tavily)
    /\ tako_results' = IF pair.tako.present THEN <<pair.tako>> \o tako_results
                       ELSE tako_results
    /\ logs' = [logs EXCEPT ![i].done = TRUE]
    /\ held' = Mutated("logs", logs')
    /\ emitted' = Emit(logs', resources)
    /\ i' = i + 1
    /\ pc' = "loop"
    /\ UNCHANGED <<entry, mock, mcpEnv, takoTools, queries, pending, pair, resources,
                   existingUrls, cursor, renders, out, thrown, mcpCache>>
    /\ UNCHANGED <<graphVars, reducerVars, clientVars>>

\* lines 96-106: both searches of query i have answered
JoinPair ==
    /\ pc = "await"
    /\ pending = {}
    /\ search_results' = Append(search_results, pair.tavily)
    /\ tako_results' = IF pair.tako.present THEN Append(tako_results, pair.tako)
                       ELSE tako_results
    /\ logs' = [logs EXCEPT ![i].done = TRUE]
    /\ held' = Mutated("logs", logs')
    /\ emitted' = Emit(logs', resources)
    /\ i' = i + 1
    /\ pc' = "loop"
    /\ UNCHANGED <<entry, mock, mcpEnv, takoTools, queries, pending, pair, resources,
                   existingUrls, cursor, renders, out, thrown, mcpCache>>
    /\ UNCHANGED <<graphVars, reducerVars, clientVars>>

\* the chart loop started with no URL known
StartCharts_NoKnownUrls ==
    /\ pc = "loop"
    /\ i > Len(queries)
    /\ existingUrls' = {}
    /\ cursor' = 1
    /\ pc' = "charts"
    /\ UNCHANGED <<entry, mock, mcpEnv, takoTools, queries, i, pending, pair, logs, resources,
                   search_results, tako_results, renders, emitted, out, thrown, held, mcpCache>>
    /\ UNCHANGED <<graphVars, reducerVars, clientVars>>

\* the chart loop started as soon as the first question is done
StartCharts_Early ==
    /\ pc = "loop"
    /\ i > 1
    /\ existingUrls' = {resources[k].url : k \in 1..Len(resources)}
    /\ cursor' = 1
    /\ pc' = "charts"
    /\ UNCHANGED <<entry, mock, mcpEnv, takoTools, queries, i, pending, pair, logs, resources,
                   search_results, tako_results, renders, emitted, out, thrown, held, mcpCache>>
    /\ UNCHANGED <<graphVars, reducerVars, clientVars>>

\* line 110: all queries are done
StartCharts ==
    /\ pc = "loop"
    /\ i > Len(queries)
    /\ existingUrls' = {resources[k].url : k \in 1..Len(resources)}
    /\ cursor' = 1
    /\ pc' = "charts"
    /\ UNCHANGED <<entry, mock, mcpEnv, takoTools, queries, i, pending, pair, logs, resources,
                   search_results, tako_results, renders, emitted, out, thrown, held, mcpCache>>
    /\ UNCHANGED <<graphVars, reducerVars, clientVars>>

\* the chart loop asking for the chart UI before it looks at the known URLs
ProcessChart_RendersFirst ==
    /\ pc = "charts"
    /\ cursor <= Len(Flatten(tako_results))
    /\ LET result == Flatten(tako_results)[cursor]
       IN  /\ renders' = Append(renders, result.card_id)
           /\ IF result.url \in existingUrls
              THEN UNCHANGED <<resources, existingUrls, held>>
              ELSE \E iframeOk \in BOOLEAN :
                     /\ resources' = Append(resources,
                                            ChartResource(result, IF iframeOk THEN IframeHtml ELSE ""))
                     /\ held' = Mutated("resources", resources')
                     /\ existingUrls' = existingUrls \cup {result.url}
    /\ cursor' = cursor + 1
    /\ UNCHANGED <<pc, entry, mock, mcpEnv, takoTools, queries, i, pending, pair, logs,
                   search_results, tako_results, emitted, out, thrown, mcpCache>>
    /\ UNCHANGED <<graphVars, reducerVars, clientVars>>

\* lines 114-147: the next Tako result is skipped when its URL is known;
\* otherwise its chart UI is requested (a failure is swallowed) and the
\* chart becomes a resource
ProcessChart ==
    /\ pc = "charts"
    /\ cursor <= Len(Flatten(tako_results))
    /\ LET result == Flatten(tako_results)[cursor]
       IN  IF result.url \in existingUrls
           THEN UNCHANGED <<resources, existingUrls, renders, held>>
           ELSE \E iframeOk \in BOOLEAN :
                  /\ resources' = Append(resources,
                                         ChartResource(result, IF iframeOk THEN IframeHtml ELSE ""))
                  /\ held' = Mutated("resources", resources')
                  /\ existingUrls' = existingUrls \cup {result.url}
                  /\ renders' = Append(renders, result.card_id)
    /\ cursor' = cursor + 1
    /\ UNCHANGED <<pc, entry, mock, mcpEnv, takoTools, queries, i, pending, pair, logs,
                   search_results, tako_results, emitted, out, thrown, mcpCache>>
    /\ UNCHANGED <<graphVars, reducerVars, clientVars>>

\* lines 124-129: takoOpenChartTool.invoke is awaited for the next new chart
\* and never settles: no timeout is attached to it
RenderNeverAnswers ==
    /\ pc = "charts"
    /\ cursor <= Len(Flatten(tako_results))
    /\ Flatten(tako_results)[cursor].url \notin existingUrls
    /\ getTakoTool(mcpCache.tools, "tako_open_chart_ui") # Undefined
    /\ renders' = Append(renders, Flatten(tako_results)[cursor].card_id)
    /\ pc' = "render"
    /\ UNCHANGED <<entry, mock, mcpEnv, takoTools, queries, i, pending, pair, logs, resources,
                   search_results, tako_results, existingUrls, cursor, emitted, out, thrown,
                   held, mcpCache>>
    /\ UNCHANGED <<graphVars, reducerVars, clientVars>>

\* the chart loop ending without clearing the progress entries
FinishCharts_KeepsLog ==
    /\ pc = "charts"
    /\ cursor > Len(Flatten(tako_results))
    /\ logs' = logs
    /\ emitted' = Emit(logs', resources)
    /\ pc' = "extract"
    /\ UNCHANGED <<entry, mock, mcpEnv, takoTools, queries, i, pending, pair, resources,
                   search_results, tako_results, existingUrls, cursor, renders, out, thrown,
                   held, mcpCache>>
    /\ UNCHANGED <<graphVars, reducerVars, clientVars>>

\* lines 151-189: the tool messages are built, the progress log is emptied
\* and the state emitted
FinishCharts ==
    /\ pc = "charts"
    /\ cursor > Len(Flatten(tako_results))
    /\ logs' = <<>>
    /\ emitted' = Emit(logs', resources)
    /\ pc' = "extract"
    /\ UNCHANGED <<entry, mock, mcpEnv, takoTools, queries, i, pending, pair, resources,
                   search_results, tako_results, existingUrls, cursor, renders, out, thrown,
                   held, mcpCache>>
    /\ UNCHANGED <<graphVars, reducerVars, clientVars>>

RECURSIVE Reverse(_)
Reverse(q) == IF q = <<>> THEN <<>> ELSE Append(Reverse(Tail(q)), q[1])

\* what the ExtractResources model call may come back with: a rejection, a
\* reply without tool call, or a tool call listing resources
ExtractOutcomes(found) ==
    {[kind |-> "error", resources |-> <<>>], [kind |-> "no_tool_call", resources |-> <<>>]}
    \cup {[kind |-> "tool_call", resources |-> rs] :
            rs \in {found, Reverse(found),
                    <<WebItem("https://web.example/invented")>> \o found}}

RECURSIVE AddWebResources(_, _, _)
\* lines 209-220: acc = [resources, existingUrls]
AddWebResources(acc, newResources, k) ==
    IF k > Len(newResources) THEN acc
    ELSE IF newResources[k].url \in acc.existingUrls
    THEN AddWebResources(acc, newResources, k + 1)
    ELSE AddWebResources([resources |-> Append(acc.resources, WebResource(newResources[k])),
                          existingUrls |-> acc.existingUrls \cup {newResources[k].url}],
                         newResources, k + 1)

\* the tool call id the search answers to (line 151)
ToolCallId(s) ==
    LET aiMessage == s.messages[Len(s.messages)]
    IN  IF Len(aiMessage.tool_calls) > 0 THEN aiMessage.tool_calls[1].id ELSE "search_now"

ToolMessage(id, content, name) ==
    [role |-> "tool", tool_call_id |-> id, content |-> content, name |-> name]

\* lines 191-234: the model picks the web resources; search_node returns
ExtractAndReturn ==
    /\ pc = "extract"
    /\ \E reply \in ExtractOutcomes(Flatten(search_results)) :
          IF reply.kind = "tool_call"
          THEN LET added == AddWebResources([resources |-> resources,
                                             existingUrls |-> existingUrls],
                                            reply.resources, 1)
                   aiMessageResponse ==
                       [role |-> "ai", content |-> "",
                        tool_calls |-> <<[name |-> "ExtractResources", id |-> "call_2",
                                          args |-> [resources |-> reply.resources]]>>]
               IN  /\ resources' = added.resources
                   /\ held' = Mutated("resources", resources')
                   /\ existingUrls' = added.existingUrls
                   /\ out' = [messages |-> <<ToolMessage(ToolCallId(entry), "Performed search.", "Search"),
                                             aiMessageResponse,
                                             ToolMessage("call_2", "Resources added.", "ExtractResources")>>,
                              resources |-> added.resources,
                              logs |-> logs]
                   /\ pc' = "done"
                   /\ UNCHANGED thrown
          ELSE /\ pc' = "failed"
               /\ thrown' = IF reply.kind = "error" THEN "extraction failed"
                            ELSE "extraction reply has no tool call"
               /\ UNCHANGED <<resources, existingUrls, out, held>>
    /\ UNCHANGED <<entry, mock, mcpEnv, takoTools, queries, i, pending, pair, logs,
                   search_results, tako_results, cursor, renders, emitted, mcpCache>>
    /\ UNCHANGED <<graphVars, reducerVars, clientVars>>

(***************************************************************************)
(* Reducer harness: ApplyDelta on states and deltas of every shape.        *)
(***************************************************************************)
\* times the delta is merged
MaxMerges == 2

\* the records with field f absent, or present with a value of vals
Optional(f, vals) == {<<>>} \cup {f :> v : v \in vals}

Chart1 == [card_id |-> "c1", title |-> "Chart 1", iframe_html |-> IframeHtml]
Chart2 == [card_id |-> "c2", title |-> "Chart 2", iframe_html |-> ""]

ReducerStates ==
    {[messages |-> <<UserMessage(Topic)>>] @@ a @@ b @@ c @@ d @@ e :
        a \in Optional("resources", {<<>>, <<Chart1>>, <<Chart1, Chart2>>}),
        b \in Optional("logs", {<<>>, <<"Report draft created">>}),
        c \in Optional("research_question", {Topic}),
        d \in Optional("data_questions", {<<AllQuestions[1]>>}),
        e \in Optional("report", {ReportText})}

ReducerDeltas ==
    {a @@ b @@ c @@ d @@ e @@ f :
        a \in Optional("messages", {<<AIMessage(<<>>)>>}),
        b \in Optional("resources", {<<>>, <<Chart1>>, <<Chart2, Chart1>>}),
        c \in Optional("logs", {<<>>, <<"Generated 1 data questions">>}),
        d \in Optional("research_question", {""}),
        e \in Optional("data_questions", {<<>>, <<AllQuestions[2]>>}),
        f \in Optional("report", {""})}

ReducerInit ==
    /\ rstate \in ReducerStates
    /\ rdelta \in ReducerDeltas
    /\ merged = <<>>

\* the reducers are not exercised
ReducerOff ==
    /\ rstate = <<>>
    /\ rdelta = <<>>
    /\ merged = <<>>

\* a node returns rdelta once more and the graph merges it
MergeDelta ==
    /\ rstate # <<>>
    /\ Len(merged) < MaxMerges
    /\ merged' = Append(merged, ApplyDelta(IF merged = <<>> THEN rstate ELSE merged[Len(merged)],
                                           rdelta))
    /\ UNCHANGED <<rstate, rdelta, graphVars, passVars, clientVars>>

(***************************************************************************)
(* initializeTakoMCP called from several requests at once                  *)
(* (tako/mcp-client.ts 79-99).                                             *)
(***************************************************************************)
\* requests in the process at once; also the most initialisations ever started
MaxCallers == 3

Callers == 1..MaxCallers

\* the variables local to one search_node call
searchLocals == <<pc, entry, mock, takoTools, queries, i, pending, pair, logs, resources,
                  search_results, tako_results, existingUrls, cursor, renders, emitted,
                  out, thrown, held>>

\* no search_node call is modelled
SearchIdle ==
    /\ pc = "off"
    /\ entry = <<>>
    /\ mock = <<>>
    /\ takoTools = FALSE
    /\ queries = <<>>
    /\ i = 0
    /\ pending = {}
    /\ pair = [tavily |-> NoResponse, tako |-> NoResponse]
    /\ logs = <<>>
    /\ resources = <<>>
    /\ search_results = <<>>
    /\ tako_results = <<>>
    /\ existingUrls = {}
    /\ cursor = 0
    /\ renders = <<>>
    /\ emitted = <<>>
    /\ out = <<>>
    /\ thrown = ""
    /\ held = <<>>

\* the module is loaded: mcpCache = null, initializationPromise = null
ClientInit ==
    /\ mcpEnv \in McpEnvironments
    /\ mcpCache = <<>>
    /\ initializationPromise = 0
    /\ promises = <<>>
    /\ callerPc = [c \in Callers |-> "idle"]
    /\ waitsOn = [c \in Callers |-> 0]
    /\ got = [c \in Callers |-> <<>>]
    /\ calledIn = [c \in Callers |-> ""]

\* the concurrent callers are not modelled
ClientOff ==
    /\ initializationPromise = 0
    /\ promises = <<>>
    /\ callerPc = <<>>
    /\ waitsOn = <<>>
    /\ got = <<>>
    /\ calledIn = <<>>

\* the promise initializeWithTimeout returns: already resolved when the
\* token is missing (line 25), pending on getTools and the timer otherwise
NewPromise(env) ==
    IF env = "no_token"
    THEN [state |-> "resolved", value |-> initializeWithTimeout(env)]
    ELSE [state |-> "pending", value |-> <<>>]

\* initializeTakoMCP starting a new initialisation while one is in flight
CallInitialize_NoSharing(c) ==
    /\ callerPc[c] = "idle"
    /\ calledIn' = [calledIn EXCEPT ![c] = mcpEnv]
    /\ IF mcpCache # <<>>
       THEN /\ got' = [got EXCEPT ![c] = mcpCache]
            /\ callerPc' = [callerPc EXCEPT ![c] = "done"]
            /\ UNCHANGED <<initializationPromise, promises, waitsOn>>
       ELSE /\ Len(promises) < MaxCallers
            /\ promises' = Append(promises, NewPromise(mcpEnv))
            /\ initializationPromise' = Len(promises) + 1
            /\ waitsOn' = [waitsOn EXCEPT ![c] = Len(promises) + 1]
            /\ callerPc' = [callerPc EXCEPT ![c] = "own"]
            /\ UNCHANGED got
    /\ UNCHANGED <<mcpEnv, mcpCache, searchLocals, graphVars, reducerVars>>

\* initializeTakoMCP starting over when the cached result has no client
CallInitialize_RetriesUnavailable(c) ==
    /\ callerPc[c] = "idle"
    /\ calledIn' = [calledIn EXCEPT ![c] = mcpEnv]
    /\ IF mcpCache # <<>> /\ mcpCache.client # "null"
       THEN /\ got' = [got EXCEPT ![c] = mcpCache]
            /\ callerPc' = [callerPc EXCEPT ![c] = "done"]
            /\ UNCHANGED <<initializationPromise, promises, waitsOn>>
       ELSE IF initializationPromise # 0
       THEN /\ waitsOn' = [waitsOn EXCEPT ![c] = initializationPromise]
            /\ callerPc' = [callerPc EXCEPT ![c] = "shared"]
            /\ UNCHANGED <<initializationPromise, promises, got>>
       ELSE /\ Len(promises) < MaxCallers
            /\ promises' = Append(promises, NewPromise(mcpEnv))
            /\ initializationPromise' = Len(promises) + 1
            /\ waitsOn' = [waitsOn EXCEPT ![c] = Len(promises) + 1]
            /\ callerPc' = [callerPc EXCEPT ![c] = "own"]
            /\ UNCHANGED got
    /\ UNCHANGED <<mcpEnv, mcpCache, searchLocals, graphVars, reducerVars>>

\* lines 79-91: a caller enters initializeTakoMCP and runs to its first
\* return or await: the cached result, the promise in flight, or a new
\* initialisation
CallInitialize(c) ==
    /\ callerPc[c] = "idle"
    /\ calledIn' = [calledIn EXCEPT ![c] = mcpEnv]
    /\ IF mcpCache # <<>>
       THEN /\ got' = [got EXCEPT ![c] = mcpCache]
            /\ callerPc' = [callerPc EXCEPT ![c] = "done"]
            /\ UNCHANGED <<initializationPromise, promises, waitsOn>>
       ELSE IF initializationPromise # 0
       THEN /\ waitsOn' = [waitsOn EXCEPT ![c] = initializationPromise]
            /\ callerPc' = [callerPc EXCEPT ![c] = "shared"]
            /\ UNCHANGED <<initializationPromise, promises, got>>
       ELSE /\ Len(promises) < MaxCallers
            /\ promises' = Append(promises, NewPromise(mcpEnv))
            /\ initializationPromise' = Len(promises) + 1
            /\ waitsOn' = [waitsOn EXCEPT ![c] = Len(promises) + 1]
            /\ callerPc' = [callerPc EXCEPT ![c] = "own"]
            /\ UNCHANGED got
    /\ UNCHANGED <<mcpEnv, mcpCache, searchLocals, graphVars, reducerVars>>

\* lines 55-65: the race of getTools against the 3 s timer settles and the
\* promise resolves, with the tools or with the unavailable result
Settle(p) ==
    /\ p \in 1..Len(promises)
    /\ promises[p].state = "pending"
    /\ promises' = [promises EXCEPT ![p] = [state |-> "resolved",
                                            value |-> initializeWithTimeout(mcpEnv)]]
    /\ UNCHANGED <<mcpEnv, mcpCache, initializationPromise, callerPc, waitsOn, got, calledIn,
                   searchLocals, graphVars, reducerVars>>

\* lines 94-98: the caller that started the initialisation resumes: the
\* result becomes the cache and initializationPromise is cleared
ResumeOwner(c) ==
    /\ callerPc[c] = "own"
    /\ promises[waitsOn[c]].state = "resolved"
    /\ mcpCache' = promises[waitsOn[c]].value
    /\ got' = [got EXCEPT ![c] = promises[waitsOn[c]].value]
    /\ initializationPromise' = 0
    /\ callerPc' = [callerPc EXCEPT ![c] = "done"]
    /\ UNCHANGED <<mcpEnv, promises, waitsOn, calledIn, searchLocals, graphVars, reducerVars>>

\* a caller that was handed the promise in flight (line 87) gets its value
ResumeSharer(c) ==
    /\ callerPc[c] = "shared"
    /\ promises[waitsOn[c]].state = "resolved"
    /\ got' = [got EXCEPT ![c] = promises[waitsOn[c]].value]
    /\ callerPc' = [callerPc EXCEPT ![c] = "done"]
    /\ UNCHANGED <<mcpEnv, mcpCache, initializationPromise, promises, waitsOn, calledIn,
                   searchLocals, graphVars, reducerVars>>

\* the request of caller c is over; a later request calls again
NextRequest(c) ==
    /\ callerPc[c] = "done"
    /\ callerPc' = [callerPc EXCEPT ![c] = "idle"]
    /\ waitsOn' = [waitsOn EXCEPT ![c] = 0]
    /\ got' = [got EXCEPT ![c] = <<>>]
    /\ calledIn' = [calledIn EXCEPT ![c] = ""]
    /\ UNCHANGED <<mcpEnv, mcpCache, initializationPromise, promises,
                   searchLocals, graphVars, reducerVars>>

\* the MCP server goes down, gets slow or comes up while the process runs;
\* the token is read from the environment the process was started with
ServerChanges ==
    /\ mcpEnv \in {"unreachable", "slow", "up"}
    /\ \E env \in {"unreachable", "slow", "up"} \ {mcpEnv} : mcpEnv' = env
    /\ UNCHANGED <<mcpCache, clientVars, searchLocals, graphVars, reducerVars>>

(***************************************************************************)
(* Specifications.                                                         *)
(***************************************************************************)
\* the workflow of agents/src
Init == GraphInit /\ PassOff /\ ReducerOff /\ ClientOff

Next ==
    \/ ChatStep
    \/ ChatModelFails
    \/ SearchStep
    \/ RecursionError

Spec == Init /\ [][Next]_vars

\* one call of search_node of agents/typescript
SearchInit == GraphOff /\ PassInit /\ ReducerOff /\ ClientOff

SearchNext ==
    \/ InitializeTako
    \/ EmitProgress
    \/ LaunchPair
    \/ TavilyCompletes
    \/ TakoCompletes
    \/ SearchNeverAnswers
    \/ JoinPair
    \/ StartCharts
    \/ ProcessChart
    \/ RenderNeverAnswers
    \/ FinishCharts
    \/ ExtractAndReturn

SpecSearch == SearchInit /\ [][SearchNext]_vars

\* one call of search_node over a single question, with the fairness its
\* scheduling gives: a continuation that can run does run, and a provider
\* call that settles is handled.  Nothing obliges a provider to settle.
LiveInit == SearchInit /\ Len(entry.data_questions) = 1

SpecSearchLive == LiveInit /\ [][SearchNext]_vars /\ WF_vars(SearchNext)

\* both agents: a run of the workflow of agents/src, or a call of
\* search_node of agents/typescript
AgentsInit == Init \/ SearchInit

AgentsNext ==
    \/ ChatStep
    \/ ChatModelFails
    \/ SearchStep
    \/ RecursionError
    \/ InitializeTako
    \/ EmitProgress
    \/ LaunchPair
    \/ TavilyCompletes
    \/ TakoCompletes
    \/ SearchNeverAnswers
    \/ JoinPair
    \/ StartCharts
    \/ ProcessChart
    \/ RenderNeverAnswers
    \/ FinishCharts
    \/ ExtractAndReturn

SpecAgents == AgentsInit /\ [][AgentsNext]_vars

\* the reducers of agents/src/state.ts on their own
HarnessInit == GraphOff /\ PassOff /\ ReducerInit /\ ClientOff

HarnessNext == MergeDelta

SpecReducer == HarnessInit /\ [][HarnessNext]_vars

\* the process serving concurrent requests that all call initializeTakoMCP
CallersInit == GraphOff /\ SearchIdle /\ ReducerOff /\ ClientInit

CallersNext ==
    \/ \E c \in Callers : CallInitialize(c)
    \/ \E p \in 1..MaxCallers : Settle(p)
    \/ \E c \in Callers : ResumeOwner(c)
    \/ \E c \in Callers : ResumeSharer(c)
    \/ \E c \in Callers : NextRequest(c)
    \/ ServerChanges

SpecCallers == CallersInit /\ [][CallersNext]_vars

(***************************************************************************)
(* Properties of the workflow of agents/src.                               *)
(***************************************************************************)
Last(q) == q[Len(q)]

\* the model replies of the current run, in order
RunReplies == SubSeq(state.messages, Len(body.messages) + 1, Len(state.messages))

\* does the reply carry a GenerateDataQuestions call
CallsGenerate(reply) ==
    \E k \in 1..Len(reply.tool_calls) : reply.tool_calls[k].name = "GenerateDataQuestions"

\* the question list of the reply's last GenerateDataQuestions call
GeneratedQuestions(reply) ==
    LET ks == {k \in 1..Len(reply.tool_calls) :
                  reply.tool_calls[k].name = "GenerateDataQuestions"}
        last == CHOOSE k \in ks : \A j \in ks : j <= k
    IN  reply.tool_calls[last].args.data_questions

\* C1 - Router correctness: after every chat step the router continues to
\* search exactly when the model's reply calls GenerateDataQuestions and the
\* question list it leaves in data_questions is non-empty; it halts for an
\* empty list, for any other tool call and for a reply without tool call.
C1_RouterCorrectness ==
    lastNode = "chat" =>
        LET reply == delta.messages[1]
        IN  /\ (CallsGenerate(reply) /\ GeneratedQuestions(reply) # <<>>)
                  => shouldSearch(state) = "search"
            /\ (CallsGenerate(reply) /\ GeneratedQuestions(reply) = <<>>)
                  => shouldSearch(state) = "end"
            /\ ~CallsGenerate(reply) => shouldSearch(state) = "end"
            /\ reply.tool_calls = <<>> => shouldSearch(state) = "end"

\* a chat step whose reply replaced a non-empty data_questions by an empty
\* list has been routed to the end
C1_Witness ==
    /\ lastNode = "chat"
    /\ Get(before, "data_questions", <<>>) # <<>>
    /\ delta.messages[1].tool_calls = <<GenerateDataQuestions(<<>>)>>
    /\ run = "halted"

\* C2 - Every run follows one path start -> chat -> (search -> chat)* -> end:
\* chat runs first, search runs only right after a chat step that was routed
\* to search, a search step is always followed by chat, the run halts only
\* right after a chat step, and never are two nodes due at once.
C2_SinglePath ==
    /\ Cardinality(active) <= 1
    /\ \A k \in 1..Len(path) : path[k] = IF k % 2 = 1 THEN "chat" ELSE "search"
    /\ path = <<>> => active = {"chat"}
    /\ "search" \in active => lastNode = "chat" /\ shouldSearch(state) = "search"
    /\ (lastNode = "chat" /\ shouldSearch(state) = "search") => active = {"search"}
    /\ lastNode = "search" => active = {"chat"}
    /\ run = "halted" =>
          /\ active = {}
          /\ path # <<>> /\ Last(path) = "chat" /\ lastNode = "chat"
          /\ shouldSearch(state) = "end"

\* a run that went chat, search, chat and halted
C2_Witness == run = "halted" /\ path = <<"chat", "search", "chat">>

\* every reply of the run so far is GenerateDataQuestions with one question
AlwaysGeneratesOneQuestion ==
    /\ RunReplies # <<>>
    /\ \A k \in 1..Len(RunReplies) :
          /\ Len(RunReplies[k].tool_calls) = 1
          /\ RunReplies[k].tool_calls[1].name = "GenerateDataQuestions"
          /\ Len(RunReplies[k].tool_calls[1].args.data_questions) = 1

\* the log holds an entry that no node's delta put there
TruncationNoted ==
    Get(state, "logs", <<>>) # Get(ApplyDelta(before, delta), "logs", <<>>)

\* C3 - Step-budget termination: when the assistant answers every turn with
\* GenerateDataQuestions carrying one question, the run stopped by the step
\* limit ends Halted (not Failed) and the log notes the truncation.
C3_StepBudgetHalts ==
    (AlwaysGeneratesOneQuestion /\ step >= RecursionLimit /\ run # "running")
        => (run = "halted" /\ TruncationNoted)

\* the chart provider answered every question of the last pass with one item,
\* all with different card ids
OneDistinctItemEach ==
    /\ \A m \in 1..Len(provided) : provided[m].ok /\ Len(provided[m].results) = 1
    /\ \A m, n \in 1..Len(provided) :
          m # n => provided[m].results[1].card_id # provided[n].results[1].card_id

ScenarioQuestions == <<AllQuestions[1], AllQuestions[2]>>

\* C4 (as claimed) - the scenario within one run: the user asks "Compare X vs
\* Y", the model's first reply sets the research question, and the run ends
\* Halted with that research question, the retrieved resources (2) and a
\* non-empty report.
C4_ScenarioInOneRun ==
    (/\ run = "halted"
     /\ body \in {BareBody, FrontendBody}
     /\ RunReplies[1].tool_calls = <<WriteResearchQuestion(Topic)>>)
        => /\ Get(state, "research_question", "") = Topic
           /\ Len(Get(state, "resources", <<>>)) = 2
           /\ Get(state, "report", "") # ""

\* C4 (amended) - the scenario takes two runs.  The run whose first reply
\* sets the research question halts right after that reply, with the
\* research question set, no resource and no report.  The run resumed from
\* its result, in which the model replies GenerateDataQuestions(["X market
\* size", "Y market size"]) and then WriteReport while the chart search
\* returns one item per question with distinct card ids, ends Halted with
\* research_question = "Compare X vs Y", exactly the 2 retrieved charts as
\* resources and a non-empty report.
C4_ScenarioInTwoRuns ==
    /\ (/\ body \in {BareBody, FrontendBody}
        /\ RunReplies # <<>>
        /\ RunReplies[1].tool_calls = <<WriteResearchQuestion(Topic)>>)
          => /\ run = "halted"
             /\ Len(RunReplies) = 1
             /\ state.research_question = Topic
             /\ Get(state, "resources", <<>>) = <<>>
             /\ Get(state, "report", "") = ""
    /\ (/\ body = QuestionSetBody
        /\ Len(RunReplies) = 2
        /\ RunReplies[1].tool_calls = <<GenerateDataQuestions(ScenarioQuestions)>>
        /\ RunReplies[2].tool_calls = <<WriteReport(ReportText)>>
        /\ OneDistinctItemEach)
          => /\ run = "halted"
             /\ state.research_question = Topic
             /\ Len(state.resources) = 2
             /\ \A m \in 1..2 : state.resources[m].card_id = provided[m].results[1].card_id
             /\ state.report # ""

\* the resumed run of the scenario has halted
C4_Witness ==
    /\ body = QuestionSetBody
    /\ run = "halted"
    /\ Len(RunReplies) = 2
    /\ RunReplies[1].tool_calls = <<GenerateDataQuestions(ScenarioQuestions)>>
    /\ RunReplies[2].tool_calls = <<WriteReport(ReportText)>>
    /\ OneDistinctItemEach

\* C7 - Model-call failure is not fatal: when the model invocation of the chat
\* node fails, the run ends Halted (not Failed); the node's delta appended one
\* error message and one log entry and left everything else as it was.
C7_ModelFailureHalts ==
    failure = "model" =>
        /\ run = "halted"
        /\ DOMAIN delta = {"messages", "logs"}
        /\ Len(delta.messages) = 1 /\ Len(delta.logs) = 1
        /\ state = ApplyDelta(before, delta)

\* C10 - Snapshot consistency: the state handed to config.saveState for a
\* node's delta is the post-merge state, the reducers applied to the state
\* committed before and that delta; its log is the committed log after the
\* merge, not the delta's entries alone.
C10_SnapshotIsPostMerge ==
    snapshots # <<>> =>
        /\ Last(snapshots) = ApplyDelta(before, delta)
        /\ Get(Last(snapshots), "logs", <<>>) = Get(state, "logs", <<>>)

(***************************************************************************)
(* Properties of the resources.                                            *)
(***************************************************************************)
\* identity key of a resource of agents/typescript: the URL of a web page,
\* "chart:" + card_id of a chart
IdentityKey(r) == IF r.resource_type = "tako_chart" THEN "chart:" \o r.card_id ELSE r.url

C6_ResourcesMergeIdempotent ==
    (Len(merged) >= 2 /\ "resources" \in DOMAIN rdelta) =>
        /\ merged[2].resources = merged[1].resources
        /\ DOMAIN rdelta = {"resources"} => merged[2] = merged[1]

\* a non-empty resources delta was merged twice into a state holding other
\* resources
C6_Witness ==
    /\ Len(merged) = 2
    /\ DOMAIN rdelta = {"resources"}
    /\ rdelta.resources # <<>>
    /\ "resources" \in DOMAIN rstate
    /\ rstate.resources # <<>>
    /\ rstate.resources # rdelta.resources

(***************************************************************************)
(* Properties of search_node of agents/typescript.                         *)
(***************************************************************************)
UrlsOf(rs) == {rs[k].url : k \in 1..Len(rs)}

\* of three questions only the web search of the second fails
OnlySecondWebSearchFails ==
    /\ pc # "off"
    /\ Len(entry.data_questions) = 3
    /\ ~mock.web[2].ok
    /\ mock.web[1].ok /\ mock.web[3].ok
    /\ \A k \in 1..3 : mock.tako[k].ok

\* C8 - Partial-failure resilience: when, of a pass over [q1,q2,q3], only the
\* web search of q2 fails, the pass is not abandoned; it completes with the
\* resources of all calls that did not fail, a log entry about the failed
\* search of q2, and q2's progress entry done.
C8_PartialFailureResilience ==
    OnlySecondWebSearchFails =>
        /\ pc # "failed"
        /\ pc = "done" =>
              /\ UrlsOf(out.resources) =
                    UrlsOf(entry.resources)
                    \cup {r.url : r \in {mock.web[1].results[k] : k \in 1..Len(mock.web[1].results)}}
                    \cup {r.url : r \in {mock.web[3].results[k] : k \in 1..Len(mock.web[3].results)}}
                    \cup (IF takoTools
                          THEN UNION {{mock.tako[q].results[k].url :
                                          k \in 1..Len(mock.tako[q].results)} : q \in 1..3}
                          ELSE {})
              /\ \E k \in 1..Len(out.logs) :
                    /\ out.logs[k].message = "Search for " \o queries[2]
                    /\ out.logs[k].done
              /\ \E k \in 1..Len(out.logs) :
                    out.logs[k].message \notin {"Search for " \o queries[q] : q \in 1..3}

\* the question that first returned the item with this URL (0: none did)
FirstQuestion(url) ==
    LET qs == {q \in 1..Len(mock.web) :
                  \/ \E k \in 1..Len(mock.web[q].results) : mock.web[q].results[k].url = url
                  \/ \E k \in 1..Len(mock.tako[q].results) : mock.tako[q].results[k].url = url}
    IN  IF qs = {} THEN 0 ELSE CHOOSE q \in qs : \A p \in qs : q <= p

\* the resources the pass added to those it started with
NewResources == SubSeq(out.resources, Len(entry.resources) + 1, Len(out.resources))

RECURSIVE AppendNewUrls(_, _)
\* urls followed by the URLs of items not yet in it, in the order of items
AppendNewUrls(urls, items) ==
    IF items = <<>> THEN urls
    ELSE IF \E k \in 1..Len(urls) : urls[k] = items[1].url
    THEN AppendNewUrls(urls, Tail(items))
    ELSE AppendNewUrls(Append(urls, items[1].url), Tail(items))

RECURSIVE ChartsByQuestion(_)
\* the charts the provider returns, question after question
ChartsByQuestion(q) ==
    IF q > Len(mock.tako) THEN <<>>
    ELSE mock.tako[q].results \o ChartsByQuestion(q + 1)

C11_FailurePreservesState ==
    pc = "failed" =>
        /\ held.logs = entry.logs
        /\ held.resources = entry.resources
        /\ held = entry

\* the state before the k-th merge of the harness
PriorTo(k) == IF k = 1 THEN rstate ELSE merged[k - 1]

\* C12 - Reducer frame: a merge changes only the fields present in the
\* delta; every field absent from the delta keeps its prior value (and stays
\* absent when it was absent), and merging an empty delta leaves the whole
\* state unchanged.
C12_ReducerFrame ==
    \A k \in 1..Len(merged) :
        /\ DOMAIN merged[k] = (DOMAIN PriorTo(k)) \cup (DOMAIN rdelta)
        /\ \A f \in (DOMAIN PriorTo(k)) \ (DOMAIN rdelta) : merged[k][f] = PriorTo(k)[f]
        /\ DOMAIN rdelta = {} => merged[k] = PriorTo(k)

\* a delta with resources and a log alone was merged into a state holding a
\* research question, data questions and a report
C12_Witness ==
    /\ Len(merged) >= 1
    /\ DOMAIN rdelta = {"resources", "logs"}
    /\ rdelta.resources # <<>> /\ rdelta.logs # <<>>
    /\ {"research_question", "data_questions", "report", "logs"} \subseteq DOMAIN rstate
    /\ rstate.logs # <<>>

IsPrefix(p, q) == Len(p) <= Len(q) /\ SubSeq(q, 1, Len(p)) = p

\* C13 - Conversation is append-only within a run: every step leaves the
\* conversation it found as a prefix of the new one (so the conversation at
\* any earlier point is a prefix of it at every later point), and a step
\* that commits a node's delta puts the node's messages after the existing
\* ones, in the order the node returned them.
C13_ConversationAppendOnly ==
    [][/\ IsPrefix(state.messages, state'.messages)
       /\ step' # step =>
             state'.messages = state.messages \o Get(delta', "messages", <<>>)]_vars

\* a run resumed from an earlier turn has committed chat, search and chat
C13_Witness ==
    /\ lastNode = "chat"
    /\ path = <<"chat", "search", "chat">>
    /\ Len(body.messages) > 1
    /\ Len(state.messages) = Len(body.messages) + 2

(***************************************************************************)
(* Degradation of search_node of agents/typescript.                        *)
(***************************************************************************)
\* the resources the pass has added so far
AddedSoFar == SubSeq(resources, Len(entry.resources) + 1, Len(resources))

\* C14 - Graceful degradation when the chart provider is unavailable: for a
\* missing token, an unreachable server and a server slower than the timeout
\* initializeTakoMCP resolves with no client and no tools; the pass then
\* starts no chart search and no render, adds no chart resource, and can
\* only be ended by the web search or the extraction call, never by Tako.
C14_GracefulDegradation ==
    /\ \A env \in McpUnavailable :
          initializeTakoMCP(<<>>, env) = [client |-> "null", tools |-> <<>>]
    /\ (mcpEnv \in McpUnavailable /\ pc \notin {"off", "start"}) =>
          /\ mcpCache = [client |-> "null", tools |-> <<>>]
          /\ ~takoTools
          /\ pending \subseteq {"tavily", "tavily:never"}
          /\ tako_results = <<>>
          /\ renders = <<>>
          /\ \A k \in 1..Len(AddedSoFar) : AddedSoFar[k].resource_type = "web"
          /\ pc = "failed" =>
                thrown \in {"tavily search failed", "extraction failed",
                            "extraction reply has no tool call"}
          /\ pc = "done" => Len(search_results) = Len(queries)

\* with a server slower than the timeout a pass over three questions has
\* returned, with web pages added
C14_Witness ==
    /\ mcpEnv = "slow"
    /\ pc = "done"
    /\ Len(queries) = 3
    /\ \E k \in 1..Len(AddedSoFar) : AddedSoFar[k].resource_type = "web"

\* a provider call of the pass will never settle
NeverAnswering == pc = "render" \/ pending \cap {"tavily:never", "tako:never"} # {}

\* C15 - Timeout liveness: a provider call (web search, chart search, chart
\* render) that never responds does not block the pass; search_node still
\* eventually comes to an end (it returns, or at least throws).
C15_TimeoutLiveness == NeverAnswering ~> (pc \in {"done", "failed"})

ExtractionFailures == {"extraction failed", "extraction reply has no tool call"}

\* the web items of all Tavily responses of the pass
Retrieved == Flatten(search_results)

\* C16 - Extraction-step failure is never fatal: when the model call that
\* selects the web items fails or returns no tool call, search_node still
\* returns its delta, with all web items retrieved in the pass among the
\* resources.
C16_ExtractionFailureNotFatal ==
    thrown \in ExtractionFailures =>
        /\ pc = "done"
        /\ \A k \in 1..Len(Retrieved) : Retrieved[k].url \in UrlsOf(out.resources)

C18_ChartAndWebNeverCollide ==
    pc = "done" =>
        LET picked == out.messages[2].tool_calls[1].args.resources
        IN  \A k \in 1..Len(picked) :
                \E m \in 1..Len(out.resources) :
                    /\ out.resources[m].resource_type = "web"
                    /\ out.resources[m].url = picked[k].url

(***************************************************************************)
(* Replace fields and the chat node's deltas.                              *)
(***************************************************************************)
ReplaceFields == {"research_question", "report", "data_questions"}

\* C19 - Replace fields accept an explicit empty value: after merging a
\* delta that carries research_question, report or data_questions, the field
\* has the delta's value, also when that value is the empty string or the
\* empty list and the old value was not empty.
C19_ReplaceAcceptsEmpty ==
    \A k \in 1..Len(merged), f \in ReplaceFields :
        f \in DOMAIN rdelta => merged[k][f] = rdelta[f]

\* a research question, a question list and a report, none empty, have been
\* replaced by empty values
C19_Witness ==
    /\ Len(merged) >= 1
    /\ ReplaceFields \subseteq DOMAIN rstate
    /\ rstate.research_question # "" /\ rstate.report # "" /\ rstate.data_questions # <<>>
    /\ ReplaceFields \subseteq DOMAIN rdelta
    /\ merged[1].research_question = "" /\ merged[1].report = ""
    /\ merged[1].data_questions = <<>>

\* the decimal numeral of a list length
Numeral(n) == CASE n = 0 -> "0" [] n = 1 -> "1" [] n = 2 -> "2" [] n = 3 -> "3" [] n = 4 -> "4"

\* C20 - Tool-to-delta mapping in the chat node, for a reply carrying one
\* tool call: WriteResearchQuestion replaces research_question with the
\* argument and appends exactly one log entry "Research question set: <q>";
\* GenerateDataQuestions replaces data_questions with the argument list and
\* appends exactly one log entry "Generated N data questions", N the length
\* of the list; WriteReport replaces report and appends exactly one log
\* entry "Report draft created".
C20_ToolToDelta ==
    (lastNode = "chat" /\ Len(delta.messages[1].tool_calls) = 1) =>
        LET toolCall == delta.messages[1].tool_calls[1]
            oldLogs == Get(before, "logs", <<>>)
            newLogs == Get(state, "logs", <<>>)
        IN  /\ toolCall.name = "WriteResearchQuestion" =>
                  /\ state.research_question = toolCall.args.research_question
                  /\ newLogs = Append(oldLogs, "Research question set: "
                                                   \o toolCall.args.research_question)
            /\ toolCall.name = "GenerateDataQuestions" =>
                  /\ state.data_questions = toolCall.args.data_questions
                  /\ newLogs = Append(oldLogs, "Generated "
                                                   \o Numeral(Len(toolCall.args.data_questions))
                                                   \o " data questions")
            /\ toolCall.name = "WriteReport" =>
                  /\ state.report = toolCall.args.report
                  /\ newLogs = Append(oldLogs, "Report draft created")

\* a reply with GenerateDataQuestions for two questions was merged into a
\* state that held another question list and a log
C20_Witness ==
    /\ lastNode = "chat"
    /\ delta.messages[1].tool_calls = <<GenerateDataQuestions(ScenarioQuestions)>>
    /\ Get(before, "data_questions", <<>>) \notin {<<>>, ScenarioQuestions}
    /\ Get(before, "logs", <<>>) # <<>>

\* the log entry the spec gives to one tool call, none for a call the chat
\* node does not recognise
EntryOf(toolCall) ==
    CASE toolCall.name = "WriteResearchQuestion" ->
            <<"Research question set: " \o toolCall.args.research_question>>
      [] toolCall.name = "GenerateDataQuestions" ->
            <<"Generated " \o Numeral(Len(toolCall.args.data_questions)) \o " data questions">>
      [] toolCall.name = "WriteReport" -> <<"Report draft created">>
      [] OTHER -> <<>>

RECURSIVE EntriesOf(_)
EntriesOf(tcs) ==
    IF tcs = <<>> THEN <<>> ELSE EntryOf(Head(tcs)) \o EntriesOf(Tail(tcs))

\* the field a tool call replaces, "" for a call the chat node does not
\* recognise
FieldOf(toolCall) ==
    CASE toolCall.name = "WriteResearchQuestion" -> "research_question"
      [] toolCall.name = "GenerateDataQuestions" -> "data_questions"
      [] toolCall.name = "WriteReport" -> "report"
      [] OTHER -> ""

\* the calls in tcs that replace field f
WritersOf(tcs, f) == SelectSeq(tcs, LAMBDA toolCall : FieldOf(toolCall) = f)

\* C21 - Multiple tool calls in one model reply are all applied, in the
\* order returned: after the chat node's delta is merged the state holds,
\* for every field, the argument of the last call that writes it, and the
\* log has grown by one entry per recognised tool call, in call order; no
\* tool call's log entry is lost.
C21_AllToolCallsApplied ==
    lastNode = "chat" =>
        LET tcs == delta.messages[1].tool_calls
        IN  /\ \A f \in ReplaceFields :
                  IF WritersOf(tcs, f) = <<>>
                  THEN /\ (f \in DOMAIN state) = (f \in DOMAIN before)
                       /\ f \in DOMAIN state => state[f] = before[f]
                  ELSE /\ f \in DOMAIN state
                       /\ state[f] = Last(WritersOf(tcs, f)).args[f]
            /\ Get(state, "logs", <<>>) = Get(before, "logs", <<>>) \o EntriesOf(tcs)

\* the fields of the state other than the conversation
OtherFields == {"research_question", "data_questions", "report", "resources", "logs"}

\* C22 - When the model reply contains no tool call, the chat node's delta
\* consists only of the appended reply message: research_question,
\* data_questions, report, resources and the log are all unchanged by the
\* step, and the run then halts.
C22_PlainReplyOnlyAppends ==
    (lastNode = "chat" /\ delta.messages[1].tool_calls = <<>>) =>
        /\ DOMAIN delta = {"messages"}
        /\ Len(delta.messages) = 1
        /\ state.messages = Get(before, "messages", <<>>) \o delta.messages
        /\ \A f \in OtherFields :
              /\ (f \in DOMAIN state) = (f \in DOMAIN before)
              /\ f \in DOMAIN state => state[f] = before[f]
        /\ run = "halted"
        /\ active = {}

\* a reply without tool call ended a run whose state held a question, a
\* question list, resources and a log
C22_Witness ==
    /\ lastNode = "chat"
    /\ delta.messages[1].tool_calls = <<>>
    /\ run = "halted"
    /\ Get(before, "research_question", "") # ""
    /\ Get(before, "data_questions", <<>>) # <<>>
    /\ Get(before, "resources", <<>>) # <<>>
    /\ Get(before, "logs", <<>>) # <<>>

\* the progress entries a pass creates for its questions
ProgressList == [k \in 1..Len(queries) |-> [message |-> "Search for " \o queries[k], done |-> FALSE]]

\* initializeTakoMCP has called the MCP server: it does so unless the token
\* is missing
InitialisationContacted == mcpCache # <<>> /\ mcpEnv # "no_token"

\* a search call of the pass has been started
SearchStarted == pc \notin {"start", "progress"} /\ ~(pc = "loop" /\ i = 1)

\* C23 - Progress list precedes all network activity: in a search pass one
\* log entry "Search for <question>" with done = false is created for every
\* question, in question order, and the complete list has been emitted to
\* the observer before any network call of the pass, provider or client
\* initialisation included, is started.
C23_ProgressBeforeNetwork ==
    (InitialisationContacted \/ SearchStarted) =>
        /\ emitted # <<>>
        /\ emitted[1].logs = entry.logs \o ProgressList

\* the searches of question k have been started
Launched(k) == pc \notin {"start", "progress"} /\ (k < i \/ (k = i /\ pc \in {"await", "failed"}))

\* the searches of question k have answered and their responses are kept
Completed(k) == Len(search_results) >= k

\* the searches search_node makes for one question
PairCalls == {"tavily"} \cup (IF takoTools THEN {"tako"} ELSE {})

C25_DoneFlipHitsRightEntry ==
    pc \in {"loop", "await", "charts", "render"} =>
        LET base == Len(entry.logs)
        IN  /\ Len(logs) = base + Len(queries)
            /\ \A k \in 1..base : logs[k] = entry.logs[k]
            /\ \A k \in 1..Len(queries) :
                  logs[base + k] = [message |-> "Search for " \o queries[k],
                                    done |-> Completed(k)]

\* the progress entries of the pass, all completed
CompletedList == [k \in 1..Len(queries) |-> [message |-> "Search for " \o queries[k], done |-> TRUE]]

\* C26 - The delta returned by a search pass contains the completed log: one
\* entry per question of the pass, each with done = true.
C26_DeltaHoldsCompletedLog ==
    pc = "done" => out.logs = CompletedList

\* C26 (amended) - The delta returned by a search pass contains an empty
\* log: the progress entries are cleared, and the cleared log emitted,
\* before the extraction call; the completed list (one entry per question,
\* each done) is what the observer was sent last before the clearing, for a
\* pass that began with an empty log.
C26_LogClearedOnReturn ==
    pc = "done" =>
        /\ out.logs = <<>>
        /\ Len(emitted) = Len(queries) + 2
        /\ Last(emitted).logs = <<>>
        /\ entry.logs = <<>> => emitted[Len(emitted) - 1].logs = CompletedList

\* a pass over three questions that began with an empty log has returned
C26_Witness ==
    /\ pc = "done"
    /\ Len(queries) = 3
    /\ entry.logs = <<>>
    /\ emitted[Len(emitted) - 1].logs = CompletedList

\* the charts added by this pass whose rendered fragment is empty: their
\* render call failed
FailedRenders ==
    {k \in 1..Len(AddedSoFar) :
        AddedSoFar[k].resource_type = "tako_chart" /\ AddedSoFar[k].iframe_html = ""}

\* the entries of log l that are neither progress entries of this pass nor
\* entries found at its start
NotesIn(l) ==
    {k \in 1..Len(l) :
        /\ \A m \in 1..Len(entry.logs) : l[k].message # entry.logs[m].message
        /\ \A m \in 1..Len(queries) : l[k].message # "Search for " \o queries[m]}

\* every chart a render call was answered for, well or not, is a resource
ChartsKept ==
    pc \in {"charts", "extract", "done"} =>
        \A k \in 1..Len(renders) :
            \E m \in 1..Len(AddedSoFar) :
                /\ AddedSoFar[m].resource_type = "tako_chart"
                /\ AddedSoFar[m].card_id = renders[k]

\* C27 - Render failure does not drop a chart: when fetching the rendered
\* fragment for a chart fails, the chart is still added to resources with
\* its metadata and an empty rendered fragment, processing continues with
\* the remaining charts, and a note about the failed render is recorded in
\* the state's log.
C27_RenderFailureNoted ==
    /\ ChartsKept
    /\ (pc = "charts" /\ FailedRenders # {}) => NotesIn(logs) # {}
    /\ (pc = "done" /\ FailedRenders # {}) => NotesIn(out.logs) # {}

\* the card ids of the charts in resource list rs
ChartIdsIn(rs) == {rs[k].card_id : k \in {m \in 1..Len(rs) : rs[m].card_id # "undefined"}}

\* the log entries the agents/src search node writes right before it calls
\* getChartIframe
FetchEntries(l) ==
    SelectSeq(l, LAMBDA e : \E r \in SearchResults : e = "Fetching chart: " \o r.title)

Running == pc \in {"progress", "loop", "await", "charts", "render", "extract"}

\* C29 - No effect before commit: the shared state is changed only by
\* merging a node's returned delta; while the search node is still running,
\* before its delta is returned, the resources and the log of the state the
\* graph holds are exactly what they were when the node started.
C29_NoEffectBeforeCommit ==
    Running => held.resources = entry.resources /\ held.logs = entry.logs

\* the pass of agents/typescript answers the call that triggered it
PassAnswersItsCall ==
    pc = "done" =>
        /\ out.messages[1].role = "tool"
        /\ out.messages[1].tool_call_id = Last(entry.messages).tool_calls[1].id

\* C30 - Search reports back through the conversation: every search pass
\* appends tool-result messages to the conversation, so that at the next
\* chat step the tool call that triggered the search is followed by a
\* tool-result message answering it (matching its call id) before the model
\* is invoked again.
C30_SearchAnswersToolCall ==
    /\ PassAnswersItsCall
    /\ lastNode = "search" =>
          /\ "messages" \in DOMAIN delta
          /\ Len(state.messages) > Len(before.messages)
          /\ state.messages[Len(before.messages) + 1].role = "tool"

\* C31 - Whenever the search node is executing, data_questions is non-empty:
\* the router enters search only in states where data_questions has at
\* least one element. The node is about to run when it is active, and has
\* run on the state kept in before when it was the last to commit.
C31_SearchHasQuestions ==
    /\ "search" \in active =>
          "data_questions" \in DOMAIN state /\ Len(state.data_questions) >= 1
    /\ lastNode = "search" =>
          "data_questions" \in DOMAIN before /\ Len(before.data_questions) >= 1

\* the search node has run over two questions
C31_Witness ==
    /\ lastNode = "search"
    /\ Len(Get(before, "data_questions", <<>>)) = 2
    /\ Len(provided) = 2

\* the reply holds a GenerateDataQuestions call
CallsGenerateQuestions(message) ==
    \E k \in 1..Len(message.tool_calls) : message.tool_calls[k].name = "GenerateDataQuestions"

\* C32 - data_questions is changed only by a GenerateDataQuestions tool
\* call: it keeps its value across every search step and across every chat
\* step whose reply is plain text, a WriteResearchQuestion call or a
\* WriteReport call.
C32_QuestionsKept ==
    LET unchanged == /\ ("data_questions" \in DOMAIN state) = ("data_questions" \in DOMAIN before)
                     /\ "data_questions" \in DOMAIN state =>
                            state.data_questions = before.data_questions
    IN  /\ lastNode = "search" => unchanged
        /\ (lastNode = "chat" /\ ~CallsGenerateQuestions(delta.messages[1])) => unchanged

\* a WriteReport reply was merged into a state holding two questions, after
\* a search step
C32_Witness ==
    /\ lastNode = "chat"
    /\ delta.messages[1].tool_calls # <<>>
    /\ delta.messages[1].tool_calls[1].name = "WriteReport"
    /\ Len(Get(state, "data_questions", <<>>)) = 2
    /\ "search" \in {path[k] : k \in 1..Len(path)}

\* states that differ from one another in the earlier messages, the stored
\* questions, the resources, the report and the log
AlternativeStates == ReducerStates \cup RequestBodies

\* C33 - Router locality: the routing decision is a function of the
\* immediately preceding chat delta alone: a state that received the same
\* chat delta but differs in any other field (earlier messages, previously
\* stored data_questions, resources, report, log) gets the decision the
\* run's state got, and that decision is the one the graph followed.
C33_RouterLocality ==
    lastNode = "chat" =>
        /\ \A other \in AlternativeStates :
              shouldSearch(ApplyDelta(other, delta)) = shouldSearch(state)
        /\ ("search" \in active) = (shouldSearch(state) = "search")

\* a reply asking for an empty question list was merged into a state that
\* held a question, and the run ended
C33_Witness ==
    /\ lastNode = "chat"
    /\ delta.messages[1].tool_calls = <<GenerateDataQuestions(<<>>)>>
    /\ Get(before, "data_questions", <<>>) # <<>>
    /\ shouldSearch(state) = "end"

InFlightInitialisations == {p \in 1..Len(promises) : promises[p].state = "pending"}

\* C35 - MCP initialisation is cached and shared: for any interleaving of
\* concurrent initializeTakoMCP calls at most one underlying initialisation
\* is in flight at a time; a caller arriving while one is in flight gets
\* that initialisation's promise and, in the end, its result; and once an
\* initialisation has completed every later call returns the cached result
\* without starting a new one, so that one initialisation is all the
\* process ever starts.
C35_InitialisationShared ==
    /\ Cardinality(InFlightInitialisations) <= 1
    /\ Len(promises) <= 1
    /\ \A c \in Callers :
          /\ callerPc[c] \in {"own", "shared"} => waitsOn[c] = 1
          /\ callerPc[c] = "done" =>
                /\ got[c] = promises[1].value
                /\ waitsOn[c] = 0 => got[c] = mcpCache
    /\ mcpCache # <<>> => mcpCache = promises[1].value /\ initializationPromise = 0

\* one caller started the initialisation, a second one was handed the same
\* promise, a third one came after it had completed: all have the result
C35_Witness ==
    /\ Cardinality({c \in Callers : callerPc[c] = "done" /\ waitsOn[c] = 1}) >= 2
    /\ \E c \in Callers : callerPc[c] = "done" /\ waitsOn[c] = 0
    /\ \A c \in Callers : callerPc[c] = "done" /\ got[c] = mcpCache

\* the result of an initialisation that found no token, failed or timed out
UnavailableResult == [client |-> "null", tools |-> <<>>]

\* C36 - A failed initialisation is cached for the life of the process:
\* after an initializeTakoMCP call has completed with the unavailable result
\* (no client, no tools), no later call retries the connection (the cache
\* stays, no initialisation is started), and every later call returns the
\* same empty-tools result, even if the server has become reachable.
C36_FailureCachedForGood ==
    [][mcpCache = UnavailableResult =>
          /\ mcpCache' = mcpCache
          /\ promises' = promises
          /\ initializationPromise' = 0
          /\ \A c \in Callers :
                (callerPc[c] = "idle" /\ callerPc'[c] # "idle") =>
                    callerPc'[c] = "done" /\ got'[c] = UnavailableResult]_vars

\* the unavailable result is cached, the server is up, and a call made with
\* the server up has returned the empty result from the cache
C36_Witness ==
    /\ mcpCache = UnavailableResult
    /\ mcpEnv = "up"
    /\ \E c \in Callers :
          /\ callerPc[c] = "done"
          /\ calledIn[c] = "up"
          /\ waitsOn[c] = 0
          /\ got[c] = UnavailableResult

\* the charts this pass has added: one per render call that was answered
ChartsAdded == {k \in 1..Len(AddedSoFar) : AddedSoFar[k].resource_type = "tako_chart"}

\* C37 - In-flight bound of the search node: at every moment of a search
\* pass at most two provider search calls are in flight, the web and the
\* chart search of a single question; chart render calls start only after
\* the searches of all questions have completed; and at most one render
\* call is in flight at a time.
C37_InFlightBound ==
    /\ Cardinality(pending) <= 2
    /\ pending \subseteq {"tavily", "tako", "tavily:never", "tako:never"}
    /\ pending # {} => pc \in {"await", "failed"} /\ i \in 1..Len(queries)
    /\ (pc \in {"charts", "render"} \/ renders # <<>>) =>
          /\ pending = {}
          /\ Len(search_results) = Len(queries)
          /\ i = Len(queries) + 1
    /\ Len(renders) - Cardinality(ChartsAdded) = IF pc = "render" THEN 1 ELSE 0

\* in a pass over three questions a second render call is in flight, the
\* first one answered
C37_Witness ==
    /\ pc = "render"
    /\ Len(queries) = 3
    /\ Len(renders) = 2
    /\ Cardinality(ChartsAdded) = 1

\* C38 - Web evidence comes from the search: every web resource added to
\* resources by a search pass has a URL that the web search provider
\* returned for one of the pass's questions; the extraction model call only
\* selects among the retrieved items and introduces none.
C38_WebEvidenceFromSearch ==
    pc = "done" =>
        \A k \in 1..Len(AddedSoFar) :
            AddedSoFar[k].resource_type = "web" => AddedSoFar[k].url \in UrlsOf(Retrieved)

====
